---- MODULE Spec2Model ----
(***************************************************************************)
(* Live session engine of quizforge: the session state machine driven by   *)
(* the presenter's stream commands and the REST finish call, participant   *)
(* answer intake and scoring, the join controller and the subscriber hub.  *)
(*                                                                         *)
(* Handlers are coroutines on one event loop.  The database calls are      *)
(* synchronous, so a handler runs without interleaving from the point it   *)
(* is resumed to its next network send or receive.  Every action below is  *)
(* one such run: it ends with the (at most one) message it hands to a      *)
(* websocket, recorded in the variable sent.                               *)
(***************************************************************************)
EXTENDS Integers, Sequences, FiniteSets, TLC

\* ------------------------------------------------------------------------
\* Bounds of the model
\* ------------------------------------------------------------------------
MaxInFlight == 2    \* handlers suspended in a send at the same time
MaxQuestions == 2   \* questions of the quiz the session runs
MaxLimit == 30      \* largest time_limit the scoring calculation is given
MaxScoreSteps == 5  \* scores a leaderboard is built from: 0, 500, 600, ...
MaxCodes == 2       \* session codes the generator draws from
MaxRoom == 2        \* connections of the rooms the Hub is taken on its own with

\* ------------------------------------------------------------------------
\* Program constants
\* ------------------------------------------------------------------------
BasePoints == 500       \* int(500 + 500 * time_ratio): the fixed part
SpeedPoints == 500      \* int(500 + 500 * time_ratio): the speed-weighted part
MinTimeLimit == 5       \* QuestionCreate.time_limit ge=5

None == "none"          \* Python None as an identity
Absent == -1            \* Python None where a number is expected
NoMsg == [type |-> "nothing"]

Pids == {"p1", "p2"}
Nicknames == {"n1", "n2"}
AdminStreams == {"a1", "a2"}
ParticipantStreams == {"s1", "s2"}
Streams == AdminStreams \cup ParticipantStreams
RestTasks == {"r1", "r2"}
Tasks == Streams \cup RestTasks

\* Connection.role of the connection a stream authenticates as
Role(s) == IF s \in AdminStreams THEN "admin" ELSE "participant"

\* hub.Connection(ws, role, participant_id)
Connection(ws, role, participant_id) ==
    [ws |-> ws, role |-> role, participant_id |-> participant_id]

\* models.Participant: a row of the participants table (score is kept in
\* the variable score)
Participant(id, nickname, token) ==
    [id |-> id, nickname |-> nickname, token |-> token]

\* ------------------------------------------------------------------------
\* The quiz (read-only to the engine)
\* ------------------------------------------------------------------------
Questions == 0 .. (MaxQuestions - 1)
total_questions == MaxQuestions

\* Question.time_limit in seconds: every question of the fixture has the
\* smallest limit the quiz editor accepts
TimeLimit(q) == MinTimeLimit
\* the monotonic clock is observed at multiples of the time limit
TickSeconds == MinTimeLimit
\* the largest time_limit: response_time = min(elapsed, time_limit) cannot
\* tell larger elapsed times apart
MaxTimeLimit == TimeLimit(MaxQuestions - 1)

\* Answer ids: <<q, k>> is choice k of question q; choice 1 is the correct one
AnswerIds == Questions \X {1, 2}
AnswerQuestion(a) == a[1]
AnswerIsCorrect(a) == a[2] = 1
\* data.get("answer_id") of a frame without answer_id
NoAnswer == <<>>
\* what a submit_answer frame may carry as answer_id
AnswerInputs == AnswerIds \cup {NoAnswer}

VARIABLES
    status,      \* sessions.status
    idx,         \* sessions.current_question_idx
    parts,       \* participants rows of the session (id, nickname, token)
    score,       \* participants.score
    responses,   \* participant_responses rows
    elapsed,     \* time.monotonic() - hub._question_sent_at[session_id],
                 \* Absent while no timestamp is recorded
    sentFor,     \* history: index of the question whose handler recorded it
    room,        \* hub._rooms[session_id], the list of connections
    task,        \* per stream / REST request: where its coroutine is suspended
    sent,        \* the message handed to a websocket by the last step
    step,        \* history: the handler the last step ran and how it ended
    got,         \* history: what each stream has been handed so far
    calc,        \* the scoring calculation taken on its own
    board,       \* the leaderboard built last, taken on its own
    fan,         \* the fan-outs of the Hub taken on its own, with failing sends
    sessions,    \* rows of the sessions table (id, code, status, idx)
    create       \* per REST request: where its create_session stands

vars == <<status, idx, parts, score, responses, elapsed, sentFor, room, task,
          sent, step, got, calc, board, fan, sessions, create>>

\* A coroutine: st is "new" (no auth frame yet), "idle" (waiting in
\* receive_text, or a REST worker without request), "busy" (suspended in a
\* send inside a handler) or "closed"; pid is ws_session's local pid; items,
\* i, after and ctx are the rest of the handler it is suspended in.
NoCtx == [pid |-> None, q |-> -1]
IdleTask == [st |-> "idle", pid |-> None, items |-> <<>>, i |-> 1, after |-> "none", ctx |-> NoCtx]
NewTask == [st |-> "new", pid |-> None, items |-> <<>>, i |-> 1, after |-> "none", ctx |-> NoCtx]

\* the handlers that only attach, detach, resume or advance the clock are
\* recorded as "other"
Step(op, out) == [op |-> op, out |-> out]

\* a session row not read yet
NoRow == [status |-> None, idx |-> -1]

\* The delivery log: per stream the highest question index a new_question
\* (q) and an answer_revealed (r) handed to it carried, and the streams
\* handed a game_ended; per stream the session row as it was in the step
\* that attached it (auth) and as its late-joiner sync read it (read), and
\* the frames its own handler wrote to it while connecting (own).  It is
\* kept only by the specifications that switch it on.
NoLog == [on |-> FALSE, q |-> [s \in Streams |-> -1],
          r |-> [s \in Streams |-> -1], ended |-> {},
          auth |-> [s \in Streams |-> NoRow],
          read |-> [s \in Streams |-> NoRow],
          own |-> [s \in Streams |-> <<>>]]
EmptyLog == [NoLog EXCEPT !.on = TRUE]

\* no leaderboard built
NoBoard == <<>>

\* no scoring calculation in progress
NoCalc == [is_correct |-> FALSE, e |-> Absent, tl |-> Absent, points |-> Absent]

\* The calls of the fan-out methods of the Hub taken on their own
Fans == {"f1", "f2"}

\* A fan-out call: st is "idle", "busy" (suspended in the send to cur) or
\* "done"; scope and pid say which method and which participant; i is
\* where its list iterator stands (0: over a list dropped from _rooms);
\* dead is the `dead` list of broadcast and send_to_participants.
\* History: targets, the connections that passed the filter when the call
\* started; stay, those of them not removed from the room since; okd, the
\* connections whose send returned; failed, those whose send raised.
IdleFan ==
    [st |-> "idle", scope |-> None, pid |-> None, i |-> 1, cur |-> None,
     dead |-> <<>>, targets |-> {}, stay |-> {}, okd |-> <<>>, failed |-> {}]

\* no fan-out of the Hub in progress
NoFan == [f \in Fans |-> IdleFan]

\* create_session: no request in progress.  attempt is the loop variable,
\* out the HTTP status answered.
NoCreate == [r \in RestTasks |-> [st |-> "idle", attempt |-> 0, out |-> None]]

Init ==
    /\ status = "lobby"
    /\ idx = -1
    /\ parts = {}
    /\ score = [p \in Pids |-> 0]
    /\ responses = {}
    /\ elapsed = Absent
    /\ sentFor = -1
    /\ room = <<>>
    /\ task = [t \in Tasks |-> IF t \in RestTasks THEN IdleTask ELSE NewTask]
    /\ sent = NoMsg
    /\ step = Step("other", "ok")
    /\ got = NoLog
    /\ calc = NoCalc
    /\ board = NoBoard
    /\ fan = NoFan
    /\ sessions = {}
    /\ create = NoCreate

\* ------------------------------------------------------------------------
\* Subscriber hub: fan-out over the live room list
\* ------------------------------------------------------------------------

\* A message a handler passes to the hub (or writes to its own websocket):
\* scope "all" = Hub.broadcast, "admin" = Hub.send_to_admin,
\* "one" = Hub.send_to_one(pid), "self" = websocket.send_text of the stream.
\* body holds the stats and player_results of an answer_revealed.
Item(type, scope, pid, q, text) ==
    [type |-> type, scope |-> scope, pid |-> pid, q |-> q, text |-> text,
     body |-> None]

\* a send_to_one that filters on the role instead of the participant id
MatchesAnyParticipant(item, c) ==
    CASE item.scope = "all" -> TRUE
      [] item.scope = "admin" -> c.role = "admin"
      [] item.scope = "one" -> c.role = "participant"
      [] OTHER -> FALSE

\* the `if conn.role == ...` / `if conn.participant_id == ...` filters
Matches(item, c) ==
    CASE item.scope = "all" -> TRUE
      [] item.scope = "admin" -> c.role = "admin"
      [] item.scope = "one" -> c.participant_id = item.pid
      [] item.scope = "participants" -> c.role = "participant"
      [] OTHER -> FALSE

\* `for conn in room`: the list iterator is an index into the live list; the
\* next connection visited that passes the filter, 0 when the loop ends.
\* i = 0 marks an iterator over a list object that was dropped from _rooms.
FirstFrom(rm, item, i) ==
    LET js == {j \in 1 .. Len(rm) : i >= 1 /\ j >= i /\ Matches(item, rm[j])}
    IN IF js = {} THEN 0 ELSE CHOOSE j \in js : \A k \in js : j <= k

\* a payload builder that ignores its reveal argument
question_payloadAlways(reveal) == "is_correct"

\* _question_payload(question, reveal): what the answer choices carry beyond
\* id, text and order
question_payload(reveal) == IF reveal THEN "is_correct" ELSE ""

\* the result fields of answer_submitted: is_correct, points_awarded and
\* total_score
OwnResult == "result"

\* a late-joiner sync that does not look at the status
SyncItemsAnyStatus(st, ix) ==
    <<Item("game_started", "self", None, -1, "")>>
    \o (IF 0 <= ix /\ ix < total_questions
        THEN <<Item("new_question", "self", None, ix,
                    question_payload(st = "revealing"))>>
        ELSE <<>>)

\* Late-joiner sync of ws_session: what is sent given the session row read
SyncItems(st, ix) ==
    IF st \in {"active", "revealing"}
    THEN <<Item("game_started", "self", None, -1, "")>>
         \o (IF 0 <= ix /\ ix < total_questions
             THEN <<Item("new_question", "self", None, ix,
                         question_payload(st = "revealing"))>>
             ELSE <<>>)
    ELSE <<>>

\* Runs a coroutine from the point it is resumed up to its next send (where
\* it suspends) or to its end.  rm, st, ix: the room list and the session
\* row as they are when the coroutine runs.
RECURSIVE Resolve(_, _, _, _, _, _, _, _)
Resolve(self, items, i, after, ctx, rm, st, ix) ==
    IF items # <<>>
    THEN IF Head(items).scope = "self"
         THEN [msg |-> Head(items), to |-> self, st |-> "busy",
               items |-> Tail(items), i |-> 1, after |-> after, ctx |-> ctx,
               mark |-> FALSE, sync |-> FALSE]
         ELSE LET j == FirstFrom(rm, Head(items), i)
              IN IF j # 0
                 THEN [msg |-> Head(items), to |-> rm[j].ws, st |-> "busy",
                       items |-> items, i |-> j + 1, after |-> after,
                       ctx |-> ctx, mark |-> FALSE, sync |-> FALSE]
                 ELSE Resolve(self, Tail(items), 1, after, ctx, rm, st, ix)
    ELSE CASE after = "sync" ->
                [Resolve(self, SyncItems(st, ix), 1, "none", ctx, rm, st, ix)
                   EXCEPT !.sync = TRUE]
           [] after = "count" ->
                Resolve(self,
                        <<Item("answer_received", "admin", ctx.pid, ctx.q, "")>>,
                        1, "none", ctx, rm, st, ix)
           [] after = "close" ->
                [msg |-> NoMsg, to |-> None, st |-> "closed", items |-> <<>>,
                 i |-> 1, after |-> "none", ctx |-> NoCtx, mark |-> FALSE,
                 sync |-> FALSE]
           [] OTHER ->
                [msg |-> NoMsg, to |-> None, st |-> "idle", items |-> <<>>,
                 i |-> 1, after |-> "none", ctx |-> NoCtx,
                 mark |-> (after = "mark"), sync |-> FALSE]

\* ws.send_json / websocket.send_text: the frame handed to stream `to`
Frame(r) ==
    IF r.msg = NoMsg THEN NoMsg
    ELSE [type |-> r.msg.type, to |-> r.to, pid |-> r.msg.pid, q |-> r.msg.q,
          text |-> r.msg.text, body |-> r.msg.body]

\* the log of coroutine t's connect handler after run r: the row at its
\* first run, the row its sync read, the frames it wrote to its own stream
DeliverOwn(g, t, r, st, ix) ==
    LET g1 == IF t \in ParticipantStreams /\ g.auth[t] = NoRow
                 /\ r.msg # NoMsg
                 /\ r.msg.type \in {"participant_connected", "auth_ok"}
              THEN [g EXCEPT !.auth[t] = [status |-> st, idx |-> ix]]
              ELSE g
        g2 == IF r.sync
              THEN [g1 EXCEPT !.read[t] = [status |-> st, idx |-> ix]]
              ELSE g1
    IN IF r.msg # NoMsg /\ r.msg.scope = "self"
       THEN [g2 EXCEPT !.own[t] = Append(@, [type |-> r.msg.type,
                                              q |-> r.msg.q,
                                              text |-> r.msg.text])]
       ELSE g2

\* the delivery log after run r of coroutine t handed its frame to a
\* websocket
Deliver(g, t, r, st, ix) ==
    IF ~g.on THEN g
    ELSE LET h == DeliverOwn(g, t, r, st, ix)
         IN IF r.msg = NoMsg THEN h
            ELSE CASE r.msg.type = "new_question" ->
                        [h EXCEPT !.q[r.to] = IF r.msg.q > @ THEN r.msg.q ELSE @]
                   [] r.msg.type = "answer_revealed" ->
                        [h EXCEPT !.r[r.to] = IF r.msg.q > @ THEN r.msg.q ELSE @]
                   [] r.msg.type = "game_ended" ->
                        [h EXCEPT !.ended = @ \cup {r.to}]
                   [] OTHER -> h

\* Hub.mark_question_sent
MarkSent(r, q) ==
    IF r.mark
    THEN elapsed' = 0 /\ sentFor' = q
    ELSE UNCHANGED <<elapsed, sentFor>>

\* The effect of running coroutine t: its new suspension point, the frame it
\* sent and the timestamp it recorded.  tk is the task map to update.
Run(t, tk, items, i, after, ctx, rm, st, ix) ==
    LET r == Resolve(t, items, i, after, ctx, rm, st, ix)
    IN /\ task' = [tk EXCEPT ![t] = [st |-> r.st, pid |-> tk[t].pid,
                                     items |-> r.items, i |-> r.i,
                                     after |-> r.after, ctx |-> r.ctx]]
       /\ sent' = Frame(r)
       /\ MarkSent(r, ctx.q)
       /\ got' = Deliver(got, t, r, st, ix)
       /\ UNCHANGED <<calc, board, fan, sessions, create>>

\* The coroutines suspended inside a handler; a new frame or request is
\* taken up only while fewer than MaxInFlight of them exist.
InFlight == {t \in Tasks : task[t].st = "busy"}
CanStart == Cardinality(InFlight) < MaxInFlight

\* ------------------------------------------------------------------------
\* Clock
\* ------------------------------------------------------------------------
\* The monotonic clock advances.  Only its distance to the recorded
\* timestamp is ever read, and only up to the largest time_limit.
Tick ==
    /\ elapsed # Absent
    /\ elapsed < MaxTimeLimit
    /\ elapsed' = elapsed + TickSeconds
    /\ sent' = NoMsg
    /\ step' = Step("other", "ok")
    /\ UNCHANGED <<status, idx, parts, score, responses, sentFor, room, task,
                   got, calc, board, fan, sessions, create>>

\* ------------------------------------------------------------------------
\* Stream attach / detach (ws_session)
\* ------------------------------------------------------------------------
SeqRemove(rm, ws) == SelectSeq(rm, LAMBDA c : c.ws # ws)

\* Hub.disconnect: removes the connection; an emptied list is dropped from
\* _rooms, so coroutines still iterating it see it exhausted.
Detach(tk, rm) ==
    IF rm = <<>>
    THEN [t \in Tasks |-> IF tk[t].st = "busy" /\ tk[t].i >= 2
                          THEN [tk[t] EXCEPT !.i = 0] ELSE tk[t]]
    ELSE tk

\* ws_session from the receipt of a valid admin auth frame: Hub.connect,
\* then auth_ok
ConnectAdmin(s) ==
    /\ s \in AdminStreams
    /\ task[s].st = "new"
    /\ CanStart
    /\ room' = Append(room, Connection(s, "admin", None))
    /\ Run(s, task, <<Item("auth_ok", "self", None, -1, "")>>, 1, "none",
           NoCtx, room', status, idx)
    /\ step' = Step("other", "ok")
    /\ UNCHANGED <<status, idx, parts, score, responses>>

\* ws_session from the receipt of a valid participant auth frame (pid and
\* ptoken of a persisted participant): Hub.connect, the participant_connected
\* notice, auth_ok, then the late-joiner sync.
ConnectParticipant(s, pid) ==
    /\ s \in ParticipantStreams
    /\ task[s].st = "new"
    /\ CanStart
    /\ \E p \in parts : p.id = pid
    /\ room' = Append(room, Connection(s, "participant", pid))
    /\ Run(s, [task EXCEPT ![s].pid = pid],
           <<Item("participant_connected", "admin", pid, -1, ""),
             Item("auth_ok", "self", None, -1, "")>>, 1, "sync",
           NoCtx, room', status, idx)
    /\ step' = Step("other", "ok")
    /\ UNCHANGED <<status, idx, parts, score, responses>>

\* ws_session on WebSocketDisconnect raised by receive_text
Disconnect(s) ==
    /\ s \in Streams
    /\ task[s].st = "idle"
    /\ CanStart
    /\ room' = SeqRemove(room, s)
    /\ Run(s, Detach(task, room'),
           IF Role(s) = "participant"
           THEN <<Item("participant_disconnected", "admin", task[s].pid, -1, "")>>
           ELSE <<>>,
           1, "close", NoCtx, room', status, idx)
    /\ step' = Step("other", "ok")
    /\ UNCHANGED <<status, idx, parts, score, responses>>

\* A suspended coroutine is resumed after its send completed
Resume(t) ==
    /\ t \in Tasks
    /\ task[t].st = "busy"
    /\ Run(t, task, task[t].items, task[t].i, task[t].after, task[t].ctx,
           room, status, idx)
    /\ step' = Step("other", "ok")
    /\ UNCHANGED <<status, idx, parts, score, responses, room>>

\* A handler that returns without effect and without sending
Ignore(op) ==
    /\ sent' = NoMsg
    /\ step' = Step(op, "ignored")
    /\ UNCHANGED <<status, idx, parts, score, responses, elapsed, sentFor,
                   room, task, got, calc, board, fan, sessions, create>>

\* ------------------------------------------------------------------------
\* Session state machine (_handle_admin_message, force_finish_session)
\* ------------------------------------------------------------------------
AdminCmds == {"start_game", "next_question", "reveal_answer", "end_game"}

\* start_game without the `status != "lobby"` rejection
start_gameAnyStatus(s) ==
    /\ status' = "active"
    /\ idx' = 0
    /\ Run(s, task,
           <<Item("game_started", "all", None, -1, ""),
             Item("new_question", "all", None, 0,
                       question_payload(FALSE))>>, 1, "mark",
           [pid |-> None, q |-> 0], room, status', idx')
    /\ step' = Step("start_game", "ok")
    /\ UNCHANGED <<parts, score, responses, room>>

start_game(s) ==
    IF status # "lobby"
    THEN Ignore("start_game")
    ELSE /\ status' = "active"
         /\ idx' = 0
         /\ Run(s, task,
                <<Item("game_started", "all", None, -1, ""),
                  Item("new_question", "all", None, 0,
                       question_payload(FALSE))>>, 1, "mark",
                [pid |-> None, q |-> 0], room, status', idx')
         /\ step' = Step("start_game", "ok")
         /\ UNCHANGED <<parts, score, responses, room>>

\* the accepted branch of next_question
next_questionAccept(s, next_idx) ==
    /\ idx' = next_idx
    /\ status' = "active"
    /\ Run(s, task, <<Item("new_question", "all", None, next_idx,
                         question_payload(FALSE))>>,
           1, "mark", [pid |-> None, q |-> next_idx], room, status', idx')
    /\ step' = Step("next_question", "ok")
    /\ UNCHANGED <<parts, score, responses, room>>

\* next_question without the `next_idx >= len(questions)` rejection
next_questionUnbounded(s) ==
    IF status \notin {"active", "revealing"}
    THEN Ignore("next_question")
    ELSE next_questionAccept(s, idx + 1)

\* next_question rejecting only `next_idx > len(questions)`
next_questionOffByOne(s) ==
    IF status \notin {"active", "revealing"}
    THEN Ignore("next_question")
    ELSE IF idx + 1 > total_questions
         THEN Ignore("next_question")
         ELSE next_questionAccept(s, idx + 1)

\* next_question without the status rejection
next_questionAnyStatus(s) ==
    IF idx + 1 >= total_questions
    THEN Ignore("next_question")
    ELSE next_questionAccept(s, idx + 1)

next_question(s) ==
    IF status \notin {"active", "revealing"}
    THEN Ignore("next_question")
    ELSE LET next_idx == idx + 1
         IN IF next_idx >= total_questions
            THEN Ignore("next_question")
            ELSE next_questionAccept(s, next_idx)

\* player_results with an entry only for the participants who answered
RevealBodyAnsweredOnly(rows, ps, q) ==
    LET responses_for_q == {r \in rows : r.question_id = q}
    IN [total_responses |-> Cardinality(responses_for_q),
        correct_count |-> Cardinality({r \in responses_for_q : r.is_correct}),
        player_results |->
          {[participant_id |-> r.participant_id,
            nickname |-> (CHOOSE p \in ps : p.id = r.participant_id).nickname,
            is_correct |-> r.is_correct, answer_id |-> r.answer_id,
            points_awarded |-> r.points_awarded] : r \in responses_for_q}]

\* stats and player_results computed over the responses to every question
RevealBodyAllQuestions(rows, ps, q) ==
    LET responses_for_q == rows
        resp(p) == {r \in responses_for_q : r.participant_id = p.id}
    IN [total_responses |-> Cardinality(responses_for_q),
        correct_count |-> Cardinality({r \in responses_for_q : r.is_correct}),
        player_results |->
          {IF resp(p) = {}
           THEN [participant_id |-> p.id, nickname |-> p.nickname,
                 is_correct |-> FALSE, answer_id |-> None,
                 points_awarded |-> 0]
           ELSE LET r == CHOOSE x \in resp(p) : TRUE
                IN [participant_id |-> p.id, nickname |-> p.nickname,
                    is_correct |-> r.is_correct, answer_id |-> r.answer_id,
                    points_awarded |-> r.points_awarded] : p \in ps}]

\* reveal_answer: stats and player_results of the current question, from
\* the responses to it and all participants of the session
RevealBody(rows, ps, q) ==
    LET responses_for_q == {r \in rows : r.question_id = q}
        resp(p) == {r \in responses_for_q : r.participant_id = p.id}
    IN [total_responses |-> Cardinality(responses_for_q),
        correct_count |-> Cardinality({r \in responses_for_q : r.is_correct}),
        player_results |->
          {IF resp(p) = {}
           THEN [participant_id |-> p.id, nickname |-> p.nickname,
                 is_correct |-> FALSE, answer_id |-> None,
                 points_awarded |-> 0]
           ELSE LET r == CHOOSE x \in resp(p) : TRUE
                IN [participant_id |-> p.id, nickname |-> p.nickname,
                    is_correct |-> r.is_correct, answer_id |-> r.answer_id,
                    points_awarded |-> r.points_awarded] : p \in ps}]

\* the answer_revealed message of reveal_answer
AnswerRevealed(q) ==
    [Item("answer_revealed", "all", None, q, question_payload(TRUE))
       EXCEPT !.body = RevealBody(responses, parts, q)]

\* reveal_answer without the status rejection
reveal_answerAnyStatus(s) ==
    /\ status' = "revealing"
    /\ Run(s, task, <<AnswerRevealed(idx)>>, 1, "none", NoCtx, room, status',
           idx)
    /\ step' = Step("reveal_answer",
                    IF status = "revealing" THEN "again" ELSE "ok")
    /\ UNCHANGED <<idx, parts, score, responses, room>>

\* the step records as "again" a reveal_answer accepted while the status
\* was revealing already
reveal_answer(s) ==
    IF status \notin {"active", "revealing"}
    THEN Ignore("reveal_answer")
    ELSE /\ status' = "revealing"
         /\ Run(s, task, <<AnswerRevealed(idx)>>, 1, "none", NoCtx, room,
                status', idx)
         /\ step' = Step("reveal_answer",
                         IF status = "revealing" THEN "again" ELSE "ok")
         /\ UNCHANGED <<idx, parts, score, responses, room>>

\* the orders `ORDER BY participants.score DESC` can return the rows in:
\* the query names no second key, so rows with equal scores come in either
\* order
OrderByScoreDesc(ps, sc) ==
    {b \in [1 .. Cardinality(ps) -> ps] :
       /\ \A i, j \in DOMAIN b : i # j => b[i] # b[j]
       /\ \A i, j \in DOMAIN b : i < j => sc[b[i].id] >= sc[b[j].id]}

\* _build_leaderboard for one order of the rows: rank is the position
build_leaderboard(participants, sc) ==
    [i \in DOMAIN participants |->
       [participant_id |-> participants[i].id,
        nickname |-> participants[i].nickname,
        score |-> sc[participants[i].id], rank |-> i]]

\* the game_ended message with the leaderboard built from one order of the
\* rows
GameEnded(participants) ==
    [Item("game_ended", "all", None, -1, "")
       EXCEPT !.body = [leaderboard |-> build_leaderboard(participants, score)]]

end_game(s) ==
    /\ status' = "finished"
    /\ \E participants \in OrderByScoreDesc(parts, score) :
         Run(s, task, <<GameEnded(participants)>>, 1, "none", NoCtx, room,
             status', idx)
    /\ step' = Step("end_game", "ok")
    /\ UNCHANGED <<idx, parts, score, responses, room>>

\* _handle_admin_message for one frame of the presenter's message loop
AdminCommand(s, cmd) ==
    /\ s \in AdminStreams
    /\ task[s].st = "idle"
    /\ CanStart
    /\ CASE cmd = "start_game" -> start_game(s)
         [] cmd = "next_question" -> next_question(s)
         [] cmd = "reveal_answer" -> reveal_answer(s)
         [] cmd = "end_game" -> end_game(s)

\* a finish that does not reject a finished session
force_finish_sessionAlways(r) ==
    /\ r \in RestTasks
    /\ task[r].st = "idle"
    /\ CanStart
    /\ status' = "finished"
    /\ \E participants \in OrderByScoreDesc(parts, score) :
         Run(r, task, <<GameEnded(participants)>>, 1, "none", NoCtx, room,
             status', idx)
    /\ step' = Step("finish", "ok")
    /\ UNCHANGED <<idx, parts, score, responses, room>>

\* POST /api/sessions/{id}/finish
force_finish_session(r) ==
    /\ r \in RestTasks
    /\ task[r].st = "idle"
    /\ CanStart
    /\ IF status = "finished"
       THEN Ignore("finish")
       ELSE /\ status' = "finished"
            /\ \E participants \in OrderByScoreDesc(parts, score) :
                 Run(r, task, <<GameEnded(participants)>>, 1, "none", NoCtx,
                     room, status', idx)
            /\ step' = Step("finish", "ok")
            /\ UNCHANGED <<idx, parts, score, responses, room>>

\* ------------------------------------------------------------------------
\* Join controller (join_session)
\* ------------------------------------------------------------------------
\* Participant.id, default=_uuid: an identifier no row has yet (None when
\* the identifiers of the model are used up)
NewPid(rows) ==
    CASE \A p \in rows : p.id # "p1" -> "p1"
      [] \A p \in rows : p.id # "p2" -> "p2"
      [] OTHER -> None

\* secrets.token_urlsafe(48): the token drawn for the row with this id
NewToken(id) == IF id = "p1" THEN "t1" ELSE "t2"

\* what join_session answers: the HTTP status and, on 200 and 201, the
\* identity and the token in the body
JoinStep(out, id, token) ==
    [op |-> "join", out |-> out, id |-> id, token |-> token]

\* a join_session answered without effect and without sending
JoinReply(out, id, token) ==
    /\ sent' = NoMsg
    /\ step' = JoinStep(out, id, token)
    /\ UNCHANGED <<status, idx, parts, score, responses, elapsed, sentFor,
                   room, task, got, calc, board, fan, sessions, create>>

\* join_session from `participant = Participant(...)` on: the insert and
\* the commit, then participant_joined to the presenter; answered 201
join_create(r, nickname) ==
    LET id == NewPid(parts)
    IN /\ id # None
       /\ parts' = parts \cup {Participant(id, nickname, NewToken(id))}
       /\ Run(r, task, <<Item("participant_joined", "admin", id, -1, "")>>, 1,
              "none", NoCtx, room, status, idx)
       /\ step' = JoinStep("201", id, NewToken(id))
       /\ UNCHANGED <<status, idx, score, responses, room>>

\* a started session that still admits new nicknames
join_startedAdmits(r, nickname, existing) ==
    IF existing = {}
    THEN join_create(r, nickname)
    ELSE LET e == CHOOSE p \in existing : TRUE
         IN JoinReply("200", e.id, e.token)

\* a rejoin answered with a newly drawn token
join_startedNewToken(r, nickname, existing) ==
    IF existing = {}
    THEN JoinReply("400 Session already started", None, None)
    ELSE LET e == CHOOSE p \in existing : TRUE
         IN JoinReply("200", e.id, IF e.token = "t1" THEN "t2" ELSE "t1")

\* join_session, `if session.status in ("active", "revealing")`: a known
\* nickname is answered with its participant, a new one is rejected
join_started(r, nickname, existing) ==
    IF existing = {}
    THEN JoinReply("400 Session already started", None, None)
    ELSE LET e == CHOOSE p \in existing : TRUE
         IN JoinReply("200", e.id, e.token)

\* a lobby that does not look for the nickname
join_lobbyUnchecked(r, nickname, existing) == join_create(r, nickname)

\* join_session in lobby: `if existing: raise HTTPException(409)`
join_lobby(r, nickname, existing) ==
    IF existing # {}
    THEN JoinReply("409", None, None)
    ELSE join_create(r, nickname)

\* POST /api/sessions/join with a nickname
join_session(r, nickname) ==
    /\ r \in RestTasks
    /\ task[r].st = "idle"
    /\ CanStart
    /\ nickname \in Nicknames
    /\ LET existing == {p \in parts : p.nickname = nickname}
       IN IF status = "finished"
          THEN JoinReply("400 Session is finished", None, None)
          ELSE IF status \in {"active", "revealing"}
          THEN join_started(r, nickname, existing)
          ELSE join_lobby(r, nickname, existing)

\* ------------------------------------------------------------------------
\* Answer intake and scoring (_handle_participant_message)
\* ------------------------------------------------------------------------
Min(a, b) == IF a < b THEN a ELSE b
Max(a, b) == IF a > b THEN a ELSE b

\* Hub.get_elapsed_since_question
get_elapsed_since_question == elapsed

\* a score without the fixed part
PointsSpeedOnly(is_correct, response_time, tlimit) ==
    IF ~is_correct THEN 0
    ELSE LET time_limit == Max(tlimit, 1)
             left == Max(0, time_limit - response_time)
         IN (SpeedPoints * left) \div time_limit

\* a score rounded to the nearest integer instead of truncated
PointsRounded(is_correct, response_time, tlimit) ==
    IF ~is_correct THEN 0
    ELSE LET time_limit == Max(tlimit, 1)
             left == Max(0, time_limit - response_time)
         IN BasePoints + (2 * SpeedPoints * left + time_limit) \div (2 * time_limit)

\* points = int(500 + 500 * max(0, 1 - response_time / max(time_limit, 1)))
Points(is_correct, response_time, tlimit) ==
    IF ~is_correct THEN 0
    ELSE LET time_limit == Max(tlimit, 1)
             left == Max(0, time_limit - response_time)
         IN BasePoints + (SpeedPoints * left) \div time_limit

\* ParticipantResponse.id, a fresh uuid: here the participant, the question
\* and a serial number among the rows of that pair
NewId(rows, pid, qid) ==
    <<pid, qid,
      Cardinality({r \in rows : r.participant_id = pid /\ r.question_id = qid}) + 1>>

\* a table without the uq_participant_question constraint
UniqueViolationOff(rows, pid, qid) == FALSE

\* the uq_participant_question constraint checked by the INSERT at commit
UniqueViolation(rows, pid, qid) ==
    \E r \in rows : r.participant_id = pid /\ r.question_id = qid

\* a commit whose IntegrityError handler keeps the score update
CommitResponseNoRollback(rows, scores, row) ==
    [rows |-> IF \E r \in rows : r.participant_id = row.participant_id
                                 /\ r.question_id = row.question_id
              THEN rows ELSE rows \cup {row},
     scores |-> [scores EXCEPT ![row.participant_id] = @ + row.points_awarded],
     ok |-> ~(\E r \in rows : r.participant_id = row.participant_id
                              /\ r.question_id = row.question_id)]

\* a commit that replaces the row the participant already has
CommitResponseUpsert(rows, scores, row) ==
    LET old == {r \in rows : r.participant_id = row.participant_id
                             /\ r.question_id = row.question_id}
    IN [rows |-> (rows \ old) \cup {[row EXCEPT !.id = <<row.participant_id, row.question_id, 1>>]},
        scores |-> scores,
        ok |-> old = {}]

\* db.add(response); participant.score += points; db.commit(): the new
\* rows and scores; on IntegrityError the transaction is rolled back
CommitResponse(rows, scores, row) ==
    IF UniqueViolation(rows, row.participant_id, row.question_id)
    THEN [rows |-> rows, scores |-> scores, ok |-> FALSE]
    ELSE [rows |-> rows \cup {row},
          scores |-> [scores EXCEPT ![row.participant_id] = @ + row.points_awarded],
          ok |-> TRUE]

\* an error path that returns without telling the participant
ReplyErrorSilent(s, participant_id, q, message) ==
    /\ sent' = NoMsg
    /\ step' = Step("submit_answer", message)
    /\ UNCHANGED <<elapsed, sentFor, task, got, calc, board, fan, sessions, create>>

\* hub.send_to_one(session_id, participant_id, {"type": "error", ...}); return
ReplyError(s, participant_id, q, message) ==
    /\ Run(s, task, <<Item("error", "one", participant_id, q, message)>>, 1,
           "none", NoCtx, room, status, idx)
    /\ step' = Step("submit_answer", message)

\* a handler that confirms the submission whether or not the commit succeeded
RecordResponseNotifyAlways(s, participant_id, question, answer_id, response_time) ==
    LET is_correct == AnswerIsCorrect(answer_id)
        points == Points(is_correct, response_time, TimeLimit(question))
        row == [id |-> NewId(responses, participant_id, question),
                participant_id |-> participant_id,
                question_id |-> question,
                answer_id |-> answer_id,
                is_correct |-> is_correct,
                response_time |-> response_time,
                points_awarded |-> points]
        c == CommitResponse(responses, score, row)
    IN /\ responses' = c.rows
       /\ score' = c.scores
       /\ Run(s, task,
              <<Item("answer_submitted", "one", participant_id, question,
                     OwnResult)>>,
              1, "count", [pid |-> participant_id, q |-> question],
              room, status, idx)
       /\ step' = Step("submit_answer", "ok")
       /\ UNCHANGED <<status, idx, parts, room>>

\* _handle_participant_message from the points calculation on: the insert,
\* the score update and the commit, then answer_submitted to the participant
\* and answer_received to the presenter
RecordResponse(s, participant_id, question, answer_id, response_time) ==
    LET is_correct == AnswerIsCorrect(answer_id)
        points == Points(is_correct, response_time, TimeLimit(question))
        row == [id |-> NewId(responses, participant_id, question),
                participant_id |-> participant_id,
                question_id |-> question,
                answer_id |-> answer_id,
                is_correct |-> is_correct,
                response_time |-> response_time,
                points_awarded |-> points]
        c == CommitResponse(responses, score, row)
    IN /\ responses' = c.rows
       /\ score' = c.scores
       /\ IF c.ok
          THEN /\ Run(s, task,
                      <<Item("answer_submitted", "one", participant_id,
                             question, OwnResult)>>,
                      1, "count", [pid |-> participant_id, q |-> question],
                      room, status, idx)
               /\ step' = Step("submit_answer", "ok")
          ELSE ReplyError(s, participant_id, question,
                          "Already answered this question")
       /\ UNCHANGED <<status, idx, parts, room>>

\* submit_answer without the `session.status != "active"` drop
submit_answerAnyStatus(s, answer_id) ==
    LET participant_id == task[s].pid
        server_elapsed == get_elapsed_since_question
        response_time0 == IF server_elapsed # Absent THEN server_elapsed ELSE 0
    IN
    IF answer_id = NoAnswer
    THEN /\ ReplyError(s, participant_id, -1, "answer_id is required")
         /\ UNCHANGED <<status, idx, parts, score, responses, room>>
    ELSE IF idx < 0 \/ idx >= total_questions
    THEN Ignore("submit_answer")
    ELSE LET question == idx
             response_time == Min(response_time0, TimeLimit(question))
         IN
         IF AnswerQuestion(answer_id) # question
         THEN /\ ReplyError(s, participant_id, question, "Invalid answer")
              /\ UNCHANGED <<status, idx, parts, score, responses, room>>
         ELSE RecordResponse(s, participant_id, question, answer_id,
                             response_time)

\* submit_answer without the check that the answer belongs to the question
submit_answerAnyAnswer(s, answer_id) ==
    LET participant_id == task[s].pid
        server_elapsed == get_elapsed_since_question
        response_time0 == IF server_elapsed # Absent THEN server_elapsed ELSE 0
    IN
    IF status # "active"
    THEN Ignore("submit_answer")
    ELSE IF answer_id = NoAnswer
    THEN /\ ReplyError(s, participant_id, -1, "answer_id is required")
         /\ UNCHANGED <<status, idx, parts, score, responses, room>>
    ELSE IF idx < 0 \/ idx >= total_questions
    THEN Ignore("submit_answer")
    ELSE LET question == idx
             response_time == Min(response_time0, TimeLimit(question))
         IN RecordResponse(s, participant_id, question, answer_id,
                           response_time)

submit_answer(s, answer_id) ==
    LET participant_id == task[s].pid
        server_elapsed == get_elapsed_since_question
        response_time0 == IF server_elapsed # Absent THEN server_elapsed ELSE 0
    IN
    IF status # "active"
    THEN Ignore("submit_answer")
    ELSE IF answer_id = NoAnswer
    THEN /\ ReplyError(s, participant_id, -1, "answer_id is required")
         /\ UNCHANGED <<status, idx, parts, score, responses, room>>
    ELSE IF idx < 0 \/ idx >= total_questions
    THEN Ignore("submit_answer")
    ELSE LET question == idx
             response_time == Min(response_time0, TimeLimit(question))
         IN
         IF AnswerQuestion(answer_id) # question
         THEN /\ ReplyError(s, participant_id, question, "Invalid answer")
              /\ UNCHANGED <<status, idx, parts, score, responses, room>>
         ELSE RecordResponse(s, participant_id, question, answer_id,
                             response_time)

\* _handle_participant_message for one frame of a participant's message loop
ParticipantMessage(s, answer_id) ==
    /\ s \in ParticipantStreams
    /\ task[s].st = "idle"
    /\ CanStart
    /\ answer_id \in AnswerInputs
    /\ submit_answer(s, answer_id)

\* ------------------------------------------------------------------------
\* Stream authentication and message ingress (ws_session)
\* ------------------------------------------------------------------------
\* The first frame of a stream.  kind "timeout": no frame within 10 s;
\* "text": a frame that is not JSON; "object": a JSON object with these
\* fields (None = the key is missing).  token is the presenter's JWT:
\* "owner" decodes to the owner of the session, "other" to another user,
\* "bad" does not decode.
AuthFrame(kind, type, role, token, pid, ptoken) ==
    [kind |-> kind, type |-> type, role |-> role, token |-> token,
     pid |-> pid, ptoken |-> ptoken]

AuthFrames ==
    {AuthFrame("timeout", None, None, None, None, None),
     AuthFrame("text", None, None, None, None, None),
     AuthFrame("object", "submit_answer", "participant", None, "p1", "t1"),
     AuthFrame("object", "auth", "guest", "owner", "p1", "t1")}
    \cup {AuthFrame("object", "auth", "admin", t, None, None) :
            t \in {None, "bad", "other", "owner"}}
    \cup {AuthFrame("object", "auth", "participant", None, p, t) :
            p \in Pids \cup {None}, t \in {None, "t1", "t2"}}

\* a lookup of the participant by id alone
FindParticipantAnyToken(pid, ptoken) == {p \in parts : p.id = pid}

\* db.query(Participant).filter(id == pid, session_id == ..., token == ptoken)
FindParticipant(pid, ptoken) ==
    {p \in parts : p.id = pid /\ p.token = ptoken}

\* `await websocket.close(code); return` before Hub.connect, and the
\* `except Exception` exit taken with conn = None ("error")
CloseAuth(s, code) ==
    /\ task' = [task EXCEPT ![s].st = "closed"]
    /\ sent' = NoMsg
    /\ step' = Step("auth", code)
    /\ UNCHANGED <<status, idx, parts, score, responses, elapsed, sentFor,
                   room, got, calc, board, fan, sessions, create>>

\* ws_session from accept() to the message loop, for one first frame.  A
\* stream of AdminStreams presents presenter credentials when they are
\* valid, a stream of ParticipantStreams participant credentials.
ws_auth(s, f) ==
    /\ s \in Streams
    /\ task[s].st = "new"
    /\ f \in AuthFrames
    /\ CASE f.kind = "timeout" -> CloseAuth(s, "4008")
         [] f.kind = "text" -> CloseAuth(s, "error")
         [] f.type # "auth" -> CloseAuth(s, "4001")
         [] f.role = "admin" ->
              IF f.token = None \/ f.token = "bad"
              THEN CloseAuth(s, "4001")
              ELSE IF f.token # "owner"
              THEN CloseAuth(s, "4003")
              ELSE ConnectAdmin(s)
         [] f.role = "participant" ->
              IF f.pid = None \/ f.ptoken = None
              THEN CloseAuth(s, "4001")
              ELSE IF FindParticipant(f.pid, f.ptoken) = {}
              THEN CloseAuth(s, "4004")
              ELSE ConnectParticipant(s, f.pid)
         [] OTHER -> CloseAuth(s, "4001")

\* `if len(raw) > 4096`
FrameLimit == 4096

\* A frame of the message loop.  kind "text": not JSON; "array": JSON that
\* is not an object; "object": a JSON object with these fields.
\* response_time is the client's own measurement (schemas.SubmitAnswer).
MsgFrame(len, kind, type, answer_id, response_time) ==
    [len |-> len, kind |-> kind, type |-> type, answer_id |-> answer_id,
     response_time |-> response_time]

MsgTypes == AdminCmds \cup {"submit_answer", "ping"}
ClientTimes == {Absent, MaxTimeLimit}

MsgFrames ==
    {MsgFrame(FrameLimit + 1, "object", "submit_answer", <<0, 1>>, Absent),
     MsgFrame(FrameLimit, "text", None, NoAnswer, Absent),
     MsgFrame(FrameLimit, "array", None, NoAnswer, Absent)}
    \cup {MsgFrame(FrameLimit, "object", t, NoAnswer, Absent) :
            t \in MsgTypes \ {"submit_answer"}}
    \cup {MsgFrame(FrameLimit, "object", "submit_answer", a, c) :
            a \in AnswerInputs, c \in ClientTimes}

\* an error reply after which the stream is dropped
SelfErrorClose(s, message) ==
    /\ room' = SeqRemove(room, s)
    /\ Run(s, Detach(task, room'),
           <<Item("error", "self", None, -1, message)>>, 1, "close", NoCtx,
           room', status, idx)
    /\ step' = Step("receive", message)
    /\ UNCHANGED <<status, idx, parts, score, responses>>

\* websocket.send_text({"type": "error", "message": ...}); continue
SelfError(s, message) ==
    /\ Run(s, task, <<Item("error", "self", None, -1, message)>>, 1, "none",
           NoCtx, room, status, idx)
    /\ step' = Step("receive", message)
    /\ UNCHANGED <<status, idx, parts, score, responses, room>>

\* `except Exception` of ws_session with conn set: the error is logged and
\* the connection removed from the hub; nothing is sent
HandlerError(s) ==
    /\ room' = SeqRemove(room, s)
    /\ task' = [Detach(task, room') EXCEPT ![s].st = "closed"]
    /\ sent' = NoMsg
    /\ step' = Step("receive", "exception")
    /\ UNCHANGED <<status, idx, parts, score, responses, elapsed, sentFor,
                   got, calc, board, fan, sessions, create>>

\* a participant handler that takes the response time from the frame
ws_dispatchClientTime(s, f) ==
    IF Role(s) = "admin"
    THEN IF f.type \notin AdminCmds
         THEN SelfError(s, "Unknown message type")
         ELSE AdminCommand(s, f.type)
    ELSE IF f.type # "submit_answer"
         THEN SelfError(s, "Unknown message type")
         ELSE IF /\ status = "active"
                 /\ f.answer_id # NoAnswer
                 /\ 0 <= idx /\ idx < total_questions
                 /\ AnswerQuestion(f.answer_id) = idx
                 /\ f.response_time # Absent
              THEN RecordResponse(s, task[s].pid, idx, f.answer_id,
                                  Min(f.response_time, TimeLimit(idx)))
              ELSE ParticipantMessage(s, f.answer_id)

\* the message loop from `msg_type = data.get("type")` on: the type check
\* for the role of the stream, then the handler, which is given the frame
\* and reads answer_id from it
ws_dispatch(s, f) ==
    IF Role(s) = "admin"
    THEN IF f.type \notin AdminCmds
         THEN SelfError(s, "Unknown message type")
         ELSE AdminCommand(s, f.type)
    ELSE IF f.type # "submit_answer"
         THEN SelfError(s, "Unknown message type")
         ELSE ParticipantMessage(s, f.answer_id)

\* one turn of the message loop of ws_session, for one frame received
ws_receive(s, f) ==
    /\ s \in Streams
    /\ task[s].st = "idle"
    /\ CanStart
    /\ f \in MsgFrames
    /\ IF f.len > FrameLimit
       THEN SelfError(s, "Message too large")
       ELSE IF f.kind = "text"
       THEN SelfError(s, "Invalid JSON")
       ELSE IF f.kind = "array"
       THEN HandlerError(s)
       ELSE ws_dispatch(s, f)

\* ------------------------------------------------------------------------
\* Specification
\* ------------------------------------------------------------------------
\* One presenter stream, one participant stream and the REST surface, with
\* one participant joining
CoreStreams == {"a1", "s1"}
CorePids == {"p1"}
CoreNicknames == {"n1"}
CoreRest == {"r1"}

Next ==
    \/ Tick
    \/ \E s \in CoreStreams : ConnectAdmin(s)
    \/ \E s \in CoreStreams, p \in CorePids : ConnectParticipant(s, p)
    \/ \E s \in CoreStreams : Disconnect(s)
    \/ \E t \in CoreStreams \cup CoreRest : Resume(t)
    \/ \E s \in CoreStreams, cmd \in AdminCmds : AdminCommand(s, cmd)
    \/ \E r \in CoreRest : force_finish_session(r)
    \/ \E r \in CoreRest, n \in CoreNicknames : join_session(r, n)
    \/ \E s \in CoreStreams, a \in AnswerInputs : ParticipantMessage(s, a)

Spec == Init /\ [][Next]_vars

\* Answer intake on several streams of one participant: a session in lobby
\* that participant p1 has joined, with the presenter stream and two streams
\* of p1 already registered in the room and every handler at its receive
InitStreams ==
    /\ status = "lobby"
    /\ idx = -1
    /\ parts = {Participant("p1", "n1", "t1")}
    /\ score = [p \in Pids |-> 0]
    /\ responses = {}
    /\ elapsed = Absent
    /\ sentFor = -1
    /\ room = <<Connection("a1", "admin", None),
                Connection("s1", "participant", "p1"),
                Connection("s2", "participant", "p1")>>
    /\ task = [t \in Tasks |->
                 CASE t \in ParticipantStreams -> [IdleTask EXCEPT !.pid = "p1"]
                   [] t = "a2" -> NewTask
                   [] OTHER -> IdleTask]
    /\ sent = NoMsg
    /\ step = Step("other", "ok")
    /\ got = NoLog
    /\ calc = NoCalc
    /\ board = NoBoard
    /\ fan = NoFan
    /\ sessions = {}
    /\ create = NoCreate

NextStreams ==
    \/ \E t \in Streams : Resume(t)
    \/ \E s \in Streams, cmd \in AdminCmds : AdminCommand(s, cmd)
    \/ \E s \in Streams, a \in AnswerInputs : ParticipantMessage(s, a)

SpecStreams == InitStreams /\ [][NextStreams]_vars

\* Two participants side by side: a session in lobby that p1 and p2 have
\* joined, with the presenter stream, a stream of p1 and a stream of p2
\* registered in the room and every handler at its receive
InitPlayers ==
    /\ status = "lobby"
    /\ idx = -1
    /\ parts = {Participant("p1", "n1", "t1"), Participant("p2", "n2", "t2")}
    /\ score = [p \in Pids |-> 0]
    /\ responses = {}
    /\ elapsed = Absent
    /\ sentFor = -1
    /\ room = <<Connection("a1", "admin", None),
                Connection("s1", "participant", "p1"),
                Connection("s2", "participant", "p2")>>
    /\ task = [t \in Tasks |->
                 CASE t = "s1" -> [IdleTask EXCEPT !.pid = "p1"]
                   [] t = "s2" -> [IdleTask EXCEPT !.pid = "p2"]
                   [] t = "a2" -> NewTask
                   [] OTHER -> IdleTask]
    /\ sent = NoMsg
    /\ step = Step("other", "ok")
    /\ got = NoLog
    /\ calc = NoCalc
    /\ board = NoBoard
    /\ fan = NoFan
    /\ sessions = {}
    /\ create = NoCreate

NextPlayers ==
    \/ \E t \in Streams : Resume(t)
    \/ \E s \in Streams, cmd \in AdminCmds : AdminCommand(s, cmd)
    \/ \E s \in Streams, a \in AnswerInputs : ParticipantMessage(s, a)

SpecPlayers == InitPlayers /\ [][NextPlayers]_vars

\* Delivery order of the broadcasts: a session in lobby that p1 has joined,
\* with two presenter streams and one stream of p1 registered in the room,
\* a second stream of p1 still to connect, the REST finish call, and the
\* delivery log switched on.  No answers are submitted and no stream
\* detaches.
InitOrder ==
    /\ status = "lobby"
    /\ idx = -1
    /\ parts = {Participant("p1", "n1", "t1")}
    /\ score = [p \in Pids |-> 0]
    /\ responses = {}
    /\ elapsed = Absent
    /\ sentFor = -1
    /\ room = <<Connection("a1", "admin", None),
                Connection("a2", "admin", None),
                Connection("s1", "participant", "p1")>>
    /\ task = [t \in Tasks |->
                 CASE t = "s1" -> [IdleTask EXCEPT !.pid = "p1"]
                   [] t = "s2" -> NewTask
                   [] OTHER -> IdleTask]
    /\ sent = NoMsg
    /\ step = Step("other", "ok")
    /\ got = EmptyLog
    /\ calc = NoCalc
    /\ board = NoBoard
    /\ fan = NoFan
    /\ sessions = {}
    /\ create = NoCreate

NextOrder ==
    \/ \E s \in Streams, p \in CorePids : ConnectParticipant(s, p)
    \/ \E t \in Streams \cup CoreRest : Resume(t)
    \/ \E s \in Streams, cmd \in AdminCmds : AdminCommand(s, cmd)
    \/ \E r \in CoreRest : force_finish_session(r)

SpecOrder == InitOrder /\ [][NextOrder]_vars

\* The join controller next to the running game: a session in lobby without
\* participants, the presenter stream registered in the room, two REST
\* requests at a time, and one participant stream that connects and answers
JoinStreams == {"a1", "s1"}

InitJoin ==
    /\ status = "lobby"
    /\ idx = -1
    /\ parts = {}
    /\ score = [p \in Pids |-> 0]
    /\ responses = {}
    /\ elapsed = Absent
    /\ sentFor = -1
    /\ room = <<Connection("a1", "admin", None)>>
    /\ task = [t \in Tasks |->
                 IF t \in RestTasks \cup {"a1"} THEN IdleTask ELSE NewTask]
    /\ sent = NoMsg
    /\ step = Step("other", "ok")
    /\ got = NoLog
    /\ calc = NoCalc
    /\ board = NoBoard
    /\ fan = NoFan
    /\ sessions = {}
    /\ create = NoCreate

NextJoin ==
    \/ \E r \in RestTasks, n \in Nicknames : join_session(r, n)
    \/ \E r \in RestTasks : force_finish_session(r)
    \/ \E s \in JoinStreams, p \in Pids : ConnectParticipant(s, p)
    \/ \E t \in JoinStreams \cup RestTasks : Resume(t)
    \/ \E s \in JoinStreams, cmd \in AdminCmds : AdminCommand(s, cmd)
    \/ \E s \in JoinStreams, a \in AnswerInputs : ParticipantMessage(s, a)

SpecJoin == InitJoin /\ [][NextJoin]_vars

\* The streams from their first frame on: a session in lobby that p1 has
\* joined, a presenter stream and a participant stream that send any first
\* frame and then any frame of the message loop.  The clock stands still:
\* every answer arrives in the second of its question.
InitIngress ==
    /\ status = "lobby"
    /\ idx = -1
    /\ parts = {Participant("p1", "n1", "t1")}
    /\ score = [p \in Pids |-> 0]
    /\ responses = {}
    /\ elapsed = Absent
    /\ sentFor = -1
    /\ room = <<>>
    /\ task = [t \in Tasks |-> IF t \in RestTasks THEN IdleTask ELSE NewTask]
    /\ sent = NoMsg
    /\ step = Step("other", "ok")
    /\ got = NoLog
    /\ calc = NoCalc
    /\ board = NoBoard
    /\ fan = NoFan
    /\ sessions = {}
    /\ create = NoCreate

NextIngress ==
    \/ \E s \in CoreStreams, f \in AuthFrames : ws_auth(s, f)
    \/ \E s \in CoreStreams, f \in MsgFrames : ws_receive(s, f)
    \/ \E s \in CoreStreams : Disconnect(s)
    \/ \E t \in CoreStreams : Resume(t)

SpecIngress == InitIngress /\ [][NextIngress]_vars

\* A late joiner: a session in lobby that p1 has joined, with the presenter
\* stream registered in the room, a stream of p1 that connects at any time,
\* and the delivery log switched on
InitSync ==
    /\ status = "lobby"
    /\ idx = -1
    /\ parts = {Participant("p1", "n1", "t1")}
    /\ score = [p \in Pids |-> 0]
    /\ responses = {}
    /\ elapsed = Absent
    /\ sentFor = -1
    /\ room = <<Connection("a1", "admin", None)>>
    /\ task = [t \in Tasks |->
                 IF t \in RestTasks \cup {"a1"} THEN IdleTask ELSE NewTask]
    /\ sent = NoMsg
    /\ step = Step("other", "ok")
    /\ got = EmptyLog
    /\ calc = NoCalc
    /\ board = NoBoard
    /\ fan = NoFan
    /\ sessions = {}
    /\ create = NoCreate

NextSync ==
    \/ \E s \in CoreStreams, p \in CorePids : ConnectParticipant(s, p)
    \/ \E t \in CoreStreams \cup CoreRest : Resume(t)
    \/ \E s \in CoreStreams, cmd \in AdminCmds : AdminCommand(s, cmd)
    \/ \E r \in CoreRest : force_finish_session(r)

SpecSync == InitSync /\ [][NextSync]_vars

\* The scoring calculation of _handle_participant_message taken on its own:
\* is_correct of the answer, the elapsed time read from the hub in whole
\* seconds (up to one second past the largest limit) and the time_limit of
\* the question as the questions table can hold it (an Integer column; the
\* quiz editor accepts 5..300)
InitScoring ==
    /\ status = "lobby"
    /\ idx = -1
    /\ parts = {}
    /\ score = [p \in Pids |-> 0]
    /\ responses = {}
    /\ elapsed = Absent
    /\ sentFor = -1
    /\ room = <<>>
    /\ task = [t \in Tasks |-> IF t \in RestTasks THEN IdleTask ELSE NewTask]
    /\ sent = NoMsg
    /\ step = Step("other", "ok")
    /\ got = NoLog
    /\ calc \in [is_correct : BOOLEAN, e : 0 .. (MaxLimit + 1),
                  tl : 1 .. MaxLimit, points : {Absent}]
    /\ board = NoBoard
    /\ fan = NoFan
    /\ sessions = {}
    /\ create = NoCreate

\* response_time = min(response_time, question.time_limit), then the points
Score ==
    /\ calc.e # Absent
    /\ calc.points = Absent
    /\ calc' = [calc EXCEPT !.points =
                    Points(calc.is_correct, Min(calc.e, calc.tl), calc.tl)]
    /\ UNCHANGED <<status, idx, parts, score, responses, elapsed, sentFor,
                   room, task, sent, step, got, board, fan, sessions, create>>

NextScoring == Score

SpecScoring == InitScoring /\ [][NextScoring]_vars

\* _build_leaderboard taken on its own: two participants with the scores
\* that answers can add up to
BoardScores == {0} \cup {BasePoints + 100 * k : k \in 0 .. MaxScoreSteps}

InitBoard ==
    /\ status = "finished"
    /\ idx = 0
    /\ parts = {Participant("p1", "n1", "t1"), Participant("p2", "n2", "t2")}
    /\ score \in [Pids -> BoardScores]
    /\ responses = {}
    /\ elapsed = Absent
    /\ sentFor = -1
    /\ room = <<>>
    /\ task = [t \in Tasks |-> IF t \in RestTasks THEN IdleTask ELSE NewTask]
    /\ sent = NoMsg
    /\ step = Step("other", "ok")
    /\ got = NoLog
    /\ calc = NoCalc
    /\ board = NoBoard
    /\ fan = NoFan
    /\ sessions = {}
    /\ create = NoCreate

\* GET /api/sessions/{id}/leaderboard
get_leaderboard ==
    /\ \E participants \in OrderByScoreDesc(parts, score) :
         board' = build_leaderboard(participants, score)
    /\ UNCHANGED <<status, idx, parts, score, responses, elapsed, sentFor,
                   room, task, sent, step, got, calc, fan, sessions, create>>

NextBoard == get_leaderboard

SpecBoard == InitBoard /\ [][NextBoard]_vars

\* Several streams with the same credentials: a session in lobby that p1
\* has joined, two streams that present the owner's token and two that
\* present the identity and token of p1, each sending any first frame and
\* closing at any time
InitAttach ==
    /\ status = "lobby"
    /\ idx = -1
    /\ parts = {Participant("p1", "n1", "t1")}
    /\ score = [p \in Pids |-> 0]
    /\ responses = {}
    /\ elapsed = Absent
    /\ sentFor = -1
    /\ room = <<>>
    /\ task = [t \in Tasks |-> IF t \in RestTasks THEN IdleTask ELSE NewTask]
    /\ sent = NoMsg
    /\ step = Step("other", "ok")
    /\ got = NoLog
    /\ calc = NoCalc
    /\ board = NoBoard
    /\ fan = NoFan
    /\ sessions = {}
    /\ create = NoCreate

NextAttach ==
    \/ \E s \in Streams, f \in AuthFrames : ws_auth(s, f)
    \/ \E s \in Streams : Disconnect(s)
    \/ \E t \in Streams : Resume(t)

SpecAttach == InitAttach /\ [][NextAttach]_vars

\* ------------------------------------------------------------------------
\* The Hub taken on its own (websocket/hub.py), with sends that raise
\* ------------------------------------------------------------------------
FanScopes == {"all", "admin", "participants", "one"}

\* the streams of the connections of a list
WsOf(rm) == {rm[k].ws : k \in DOMAIN rm}

RECURSIVE RemoveAll(_, _)
\* `for conn in dead: self.disconnect(session_id, conn)`
RemoveAll(rm, dead) ==
    IF dead = <<>> THEN rm ELSE RemoveAll(SeqRemove(rm, Head(dead)), Tail(dead))

\* Hub.disconnect emptied the list and popped it from _rooms: the calls
\* suspended in a send iterate a list no connection is added to any more.
\* Every call notes the connections that left the room.
Dropped(fn, rm) ==
    [f \in Fans |->
       IF fn[f].st # "busy" THEN fn[f]
       ELSE [fn[f] EXCEPT !.i = IF rm = <<>> THEN 0 ELSE @,
                          !.stay = @ \cap WsOf(rm)]]

\* `for conn in room: if <filter>: await conn.ws.send_json(message)` from
\* the iterator position of call f on: suspended in the next send, or,
\* the loop over, the `dead` connections disconnected
Iterate(f, fr, fn, rm) ==
    LET j == FirstFrom(rm, fr, fr.i)
    IN IF j # 0
       THEN /\ fan' = [fn EXCEPT ![f] = [fr EXCEPT !.st = "busy",
                                                  !.cur = rm[j].ws,
                                                  !.i = j + 1]]
            /\ room' = rm
       ELSE LET rm2 == RemoveAll(rm, fr.dead)
            IN /\ room' = rm2
               /\ fan' = Dropped([fn EXCEPT ![f] = [fr EXCEPT !.st = "done",
                                                             !.cur = None]],
                                 rm2)

\* Hub.broadcast, send_to_admin, send_to_participants and send_to_one, from
\* the call to the first send
FanOut(f, scope, pid) ==
    /\ f \in Fans
    /\ fan[f].st # "busy"
    /\ scope \in FanScopes
    /\ LET fr == [IdleFan EXCEPT !.scope = scope, !.pid = pid]
           ts == {room[k].ws : k \in {k \in DOMAIN room : Matches(fr, room[k])}}
       IN Iterate(f, [fr EXCEPT !.targets = ts, !.stay = ts], fan, room)
    /\ UNCHANGED <<status, idx, parts, score, responses, elapsed, sentFor,
                   task, sent, step, got, calc, board, sessions, create>>

broadcast(f) == FanOut(f, "all", None)

send_to_admin(f) == FanOut(f, "admin", None)

send_to_participants(f) == FanOut(f, "participants", None)

send_to_one(f, participant_id) ==
    /\ participant_id \in Pids
    /\ FanOut(f, "one", participant_id)

\* the send call f is suspended in returns
SendOk(f) ==
    /\ f \in Fans
    /\ fan[f].st = "busy"
    /\ Iterate(f, [fan[f] EXCEPT !.okd = Append(@, fan[f].cur)], fan, room)
    /\ UNCHANGED <<status, idx, parts, score, responses, elapsed, sentFor,
                   task, sent, step, got, calc, board, sessions, create>>

\* the send call f is suspended in raises: broadcast and
\* send_to_participants note the connection in `dead`, send_to_admin and
\* send_to_one disconnect it at once, inside the loop
SendFail(f) ==
    /\ f \in Fans
    /\ fan[f].st = "busy"
    /\ LET fr == [fan[f] EXCEPT !.failed = @ \cup {fan[f].cur}]
       IN IF fr.scope \in {"all", "participants"}
          THEN Iterate(f, [fr EXCEPT !.dead = Append(@, fan[f].cur)], fan, room)
          ELSE LET rm == SeqRemove(room, fan[f].cur)
                   fn == Dropped([fan EXCEPT ![f] = fr], rm)
               IN Iterate(f, fn[f], fn, rm)
    /\ UNCHANGED <<status, idx, parts, score, responses, elapsed, sentFor,
                   task, sent, step, got, calc, board, sessions, create>>

\* Hub.connect as ws_session calls it for a stream that authenticated
connect(s, participant_id) ==
    /\ s \in Streams
    /\ task[s].st = "new"
    /\ participant_id \in (IF Role(s) = "admin" THEN {None} ELSE Pids)
    /\ room' = Append(room, Connection(s, Role(s), participant_id))
    /\ task' = [task EXCEPT ![s] = [IdleTask EXCEPT !.pid = participant_id]]
    /\ UNCHANGED <<status, idx, parts, score, responses, elapsed, sentFor,
                   sent, step, got, calc, board, fan, sessions, create>>

\* Hub.disconnect as ws_session calls it when the stream closed
disconnect(s) ==
    /\ s \in Streams
    /\ task[s].st = "idle"
    /\ room' = SeqRemove(room, s)
    /\ fan' = Dropped(fan, room')
    /\ task' = [task EXCEPT ![s].st = "closed"]
    /\ UNCHANGED <<status, idx, parts, score, responses, elapsed, sentFor,
                   sent, step, got, calc, board, sessions, create>>

\* The rooms the fan-outs are called on: up to MaxRoom connections of the
\* two presenter streams and two participant streams, in any order of
\* attachment, the participant streams authenticated as p1 or p2
HubConnections ==
    {Connection(s, Role(s), None) : s \in AdminStreams}
    \cup {Connection(s, Role(s), p) : s \in ParticipantStreams, p \in Pids}

HubRooms ==
    UNION {{rm \in [1 .. n -> HubConnections] :
              \A i, j \in 1 .. n : i # j => rm[i].ws # rm[j].ws}
           : n \in 0 .. MaxRoom}

\* Failing sends: two calls at a time on a room nobody joins or leaves
InitFan ==
    /\ status = "lobby"
    /\ idx = -1
    /\ parts = {Participant("p1", "n1", "t1"), Participant("p2", "n2", "t2")}
    /\ score = [p \in Pids |-> 0]
    /\ responses = {}
    /\ elapsed = Absent
    /\ sentFor = -1
    /\ room \in HubRooms
    /\ task = [t \in Tasks |->
                 IF t \in RestTasks THEN IdleTask
                 ELSE IF \E k \in DOMAIN room : room[k].ws = t
                 THEN [IdleTask EXCEPT !.pid =
                         room[CHOOSE k \in DOMAIN room : room[k].ws = t]
                           .participant_id]
                 ELSE NewTask]
    /\ sent = NoMsg
    /\ step = Step("other", "ok")
    /\ got = NoLog
    /\ calc = NoCalc
    /\ board = NoBoard
    /\ fan = NoFan
    /\ sessions = {}
    /\ create = NoCreate

NextFan ==
    \/ \E f \in Fans : broadcast(f)
    \/ \E f \in Fans : send_to_admin(f)
    \/ \E f \in Fans : send_to_participants(f)
    \/ \E f \in Fans, p \in Pids : send_to_one(f, p)
    \/ \E f \in Fans : SendOk(f)
    \/ \E f \in Fans : SendFail(f)

SpecFan == InitFan /\ [][NextFan]_vars

\* Streams that attach and detach while broadcasts are under way, every
\* send returning: the room starts empty
InitHub ==
    /\ status = "lobby"
    /\ idx = -1
    /\ parts = {Participant("p1", "n1", "t1"), Participant("p2", "n2", "t2")}
    /\ score = [p \in Pids |-> 0]
    /\ responses = {}
    /\ elapsed = Absent
    /\ sentFor = -1
    /\ room = <<>>
    /\ task = [t \in Tasks |-> IF t \in RestTasks THEN IdleTask ELSE NewTask]
    /\ sent = NoMsg
    /\ step = Step("other", "ok")
    /\ got = NoLog
    /\ calc = NoCalc
    /\ board = NoBoard
    /\ fan = NoFan
    /\ sessions = {}
    /\ create = NoCreate

\* one presenter stream and a stream of each participant, one broadcast at
\* a time
HubStreams == {"a1", "s1", "s2"}
HubFans == {"f1"}

NextHub ==
    \/ connect("a1", None) \/ connect("s1", "p1") \/ connect("s2", "p2")
    \/ \E s \in HubStreams : disconnect(s)
    \/ \E f \in HubFans : broadcast(f)
    \/ \E f \in HubFans : SendOk(f)

SpecHub == InitHub /\ [][NextHub]_vars

\* ------------------------------------------------------------------------
\* Session creation (create_session)
\* ------------------------------------------------------------------------
\* _generate_code draws 6 characters out of 36; the model draws a code out
\* of MaxCodes, so that collisions happen
Codes == 1 .. MaxCodes

\* range(3): the inserts create_session attempts
MaxAttempts == 3

\* Session(quiz_id, owner_id) with the column defaults: status lobby,
\* current_question_idx -1, the code drawn at the insert
NewSession(id, code) ==
    [id |-> id, code |-> code, status |-> "lobby", idx |-> -1]

\* Session.id, default uuid4: an identifier no row has
NewSessionId(rows) == Cardinality(rows) + 1

\* a sessions table without the unique constraint on code
CodeTakenNever(rows, code) == FALSE

\* the unique constraint on sessions.code: the commit raises IntegrityError
CodeTaken(rows, code) == \E x \in rows : x.code = code

\* One pass of the loop of create_session, with `attempt` = n: add, commit;
\* on IntegrityError rollback, and the 500 when n is the last pass
Insert(r, n, code) ==
    /\ code \in Codes
    /\ IF CodeTaken(sessions, code)
       THEN /\ sessions' = sessions
            /\ create' = [create EXCEPT ![r] =
                            IF n = MaxAttempts - 1
                            THEN [st |-> "done", attempt |-> n, out |-> "500"]
                            ELSE [st |-> "run", attempt |-> n + 1,
                                  out |-> None]]
       ELSE /\ sessions' = sessions
                             \cup {NewSession(NewSessionId(sessions), code)}
            /\ create' = [create EXCEPT ![r] =
                            [st |-> "done", attempt |-> n, out |-> "201"]]
    /\ UNCHANGED <<status, idx, parts, score, responses, elapsed, sentFor,
                   room, task, sent, step, got, calc, board, fan>>

\* POST /api/sessions for a quiz of the caller that has questions: from the
\* request to the end of the first pass of the loop
create_session(r, code) ==
    /\ r \in RestTasks
    /\ create[r].st # "run"
    /\ Insert(r, 0, code)

\* a further pass of the loop, after a collision
create_retry(r, code) ==
    /\ r \in RestTasks
    /\ create[r].st = "run"
    /\ Insert(r, create[r].attempt, code)

\* Requests run in the worker threads of the server, two at a time, on a
\* sessions table that starts empty
InitCreate ==
    /\ status = "lobby"
    /\ idx = -1
    /\ parts = {}
    /\ score = [p \in Pids |-> 0]
    /\ responses = {}
    /\ elapsed = Absent
    /\ sentFor = -1
    /\ room = <<>>
    /\ task = [t \in Tasks |-> IF t \in RestTasks THEN IdleTask ELSE NewTask]
    /\ sent = NoMsg
    /\ step = Step("other", "ok")
    /\ got = NoLog
    /\ calc = NoCalc
    /\ board = NoBoard
    /\ fan = NoFan
    /\ sessions = {}
    /\ create = NoCreate

NextCreate ==
    \/ \E r \in RestTasks, code \in Codes : create_session(r, code)
    \/ \E r \in RestTasks, code \in Codes : create_retry(r, code)

\* a worker thread that is inside the loop runs its next pass
SpecCreate ==
    /\ InitCreate
    /\ [][NextCreate]_vars
    /\ \A r \in RestTasks : WF_vars(\E code \in Codes : create_retry(r, code))

TypeOK ==
    /\ status \in {"lobby", "active", "revealing", "finished"}
    /\ idx \in -1 .. (total_questions - 1)
    /\ parts \subseteq [id : Pids, nickname : Nicknames, token : {"t1", "t2"}]
    /\ score \in [Pids -> Nat]
    /\ elapsed \in {Absent} \cup 0 .. MaxTimeLimit

\* ------------------------------------------------------------------------
\* Properties
\* ------------------------------------------------------------------------
SameAnswerSlot(r1, r2) ==
    r1.participant_id = r2.participant_id /\ r1.question_id = r2.question_id

RowsOf(pid) == {r \in responses : r.participant_id = pid}

RECURSIVE SumPoints(_)
SumPoints(rows) ==
    IF rows = {} THEN 0
    ELSE LET r == CHOOSE x \in rows : TRUE
         IN r.points_awarded + SumPoints(rows \ {r})

AlreadyAnswered == "Already answered this question"

\* C1: in every reachable state at most one Response row exists for each
\* (participant, question), whatever the interleaving of submit_answer
\* frames, also when they arrive on two streams of the same participant.
C1_AtMostOneResponse ==
    \A r1, r2 \in responses : SameAnswerSlot(r1, r2) => r1 = r2

\* C1 witness: a stream is still inside its accepted submit_answer while a
\* second stream of the same participant had its submission for the same
\* question refused.
C1_Witness ==
    \E s, t \in ParticipantStreams :
        /\ s # t
        /\ task[s].pid = task[t].pid
        /\ task[s].st = "busy" /\ task[s].after = "count"
        /\ task[s].ctx.q = idx
        /\ task[t].st = "busy"
        /\ step = Step("submit_answer", AlreadyAnswered)

\* C2: in every reachable state each participant's score is the sum of
\* points_awarded over the participant's Response rows, so a refused
\* submission leaves no increment behind.
C2_ScoreIsSumOfPoints ==
    \A p \in Pids : score[p] = SumPoints(RowsOf(p))

\* C2 witness: a participant with points has just had a further submission
\* refused as a duplicate.
C2_Witness ==
    /\ step = Step("submit_answer", AlreadyAnswered)
    /\ \E p \in Pids : score[p] >= BasePoints /\ RowsOf(p) # {}

\* C3: a submit_answer of a participant who already has a Response for the
\* current question, received while the session is active, changes neither
\* the Response rows nor any score and sends an error to a stream of that
\* participant; the error is "already answered" when the frame names an
\* answer of the current question.
C3_SecondSubmitRejected ==
    [][\A s \in ParticipantStreams, a \in AnswerInputs :
          ( /\ ParticipantMessage(s, a)
            /\ status = "active"
            /\ \E r \in responses : r.participant_id = task[s].pid
                                    /\ r.question_id = idx )
          => /\ responses' = responses
             /\ score' = score
             /\ sent'.type = "error"
             /\ sent'.pid = task[s].pid
             /\ task[sent'.to].pid = task[s].pid
             /\ (a \in AnswerIds /\ AnswerQuestion(a) = idx)
                    => sent'.text = AlreadyAnswered]_vars

\* C3 witness: the duplicate of a correct, scored answer was refused.
C3_Witness ==
    /\ step = Step("submit_answer", AlreadyAnswered)
    /\ sent.type = "error" /\ sent.text = AlreadyAnswered
    /\ status = "active"
    /\ \E r \in responses : r.question_id = idx /\ r.is_correct
                            /\ r.participant_id = sent.pid

\* C4: every Response row is inserted with a response time measured from
\* the timestamp recorded for its own question: when a row is inserted the
\* timestamp is present and was recorded for the current question.
C4_MarkPrecedesMeasurement ==
    [][responses' # responses => (elapsed # Absent /\ sentFor = idx)]_vars

\* C5: the status changes only along lobby->active by start_game,
\* active|revealing->active by next_question, active->revealing by
\* reveal_answer and non-finished->finished by end_game or the REST finish;
\* it never leaves finished.
C5_LegalTransitions ==
    [][status' # status =>
          \/ status = "lobby" /\ status' = "active" /\ step'.op = "start_game"
          \/ status = "revealing" /\ status' = "active"
                /\ step'.op = "next_question"
          \/ status = "active" /\ status' = "revealing"
                /\ step'.op = "reveal_answer"
          \/ status # "finished" /\ status' = "finished"
                /\ step'.op \in {"end_game", "finish"}]_vars

\* C5 witness: a session that went through a reveal was taken back to
\* active by next_question.
C5_Witness ==
    /\ step = Step("next_question", "ok")
    /\ status = "active"
    /\ idx = 1

\* C6: while the status is lobby the index is -1; while it is active or
\* revealing the index is within [0, total_questions).
C6_IndexInRange ==
    /\ status = "lobby" => idx = -1
    /\ status \in {"active", "revealing"} => 0 <= idx /\ idx < total_questions

\* C6 witness: the last question is being revealed.
C6_Witness ==
    status = "revealing" /\ idx = total_questions - 1

\* C7: the index never decreases; it changes only by start_game (from -1
\* to 0) and by an accepted next_question (by exactly 1).
C7_IndexMonotonic ==
    [][/\ idx' >= idx
       /\ idx' # idx =>
             \/ step'.op = "start_game" /\ idx = -1 /\ idx' = 0
             \/ step'.op = "next_question" /\ idx' = idx + 1]_vars

\* C7 witness: the session is finished on its last question after the index
\* advanced through every question.
C7_Witness ==
    status = "finished" /\ idx = total_questions - 1 /\ responses # {}

\* C8: an end_game received when the status is already finished is
\* rejected: status, index, scores and responses stay as they are and no
\* game_ended is broadcast.
C8_EndGameIdempotent ==
    [][\A s \in AdminStreams :
          (AdminCommand(s, "end_game") /\ status = "finished")
          => /\ UNCHANGED <<status, idx, score, responses>>
             /\ sent' = NoMsg
             /\ task' = task]_vars

\* the statuses in which the transition table lists no transition for cmd
NoTransition(cmd, st) ==
    \/ cmd = "start_game" /\ st # "lobby"
    \/ cmd \in {"next_question", "reveal_answer"} /\ st \in {"lobby", "finished"}

\* C9: a start_game, next_question or reveal_answer received in a status
\* without a transition for it changes nothing (status, index, timestamp,
\* scores, responses, room, suspended handlers) and sends no message.
C9_RejectedCommandsNoOp ==
    [][\A s \in AdminStreams :
          \A cmd \in {"start_game", "next_question", "reveal_answer"} :
             (AdminCommand(s, cmd) /\ NoTransition(cmd, status))
             => /\ UNCHANGED <<status, idx, elapsed, sentFor, parts, score,
                              responses, room, task>>
                /\ sent' = NoMsg]_vars

\* C9 witness: a start_game was ignored on a session with scored answers
\* whose question is being revealed.
C9_Witness ==
    /\ step = Step("start_game", "ignored")
    /\ status = "revealing"
    /\ \E p \in Pids : score[p] > 0

\* C10: a next_question received on the last question (active or
\* revealing) changes nothing, does not overwrite the timestamp and sends
\* no message.
C10_NextPastLastRejected ==
    [][\A s \in AdminStreams :
          ( /\ AdminCommand(s, "next_question")
            /\ status \in {"active", "revealing"}
            /\ idx + 1 >= total_questions )
          => /\ UNCHANGED <<status, idx, elapsed, sentFor, parts, score,
                           responses, room, task>>
             /\ sent' = NoMsg]_vars

\* C10 witness: a next_question was ignored while the last question is
\* active and its timestamp is recorded.
C10_Witness ==
    /\ step = Step("next_question", "ignored")
    /\ status = "active"
    /\ idx = total_questions - 1
    /\ elapsed # Absent /\ sentFor = idx

\* ------------------------------------------------------------------------
\* Answer intake: drops, scoring range, validation, row lifecycle
\* ------------------------------------------------------------------------
InvalidAnswer == "Invalid answer"
ResultNotices == {"answer_submitted", "answer_received"}

\* C11: a submit_answer received while the status is lobby, revealing or
\* finished creates no Response row, changes no score, leaves the handler
\* at its receive and sends no message to anyone; and no step taken in a
\* finished session changes a score or a Response row.
C11_InactiveSubmitDropped ==
    [][/\ \A s \in ParticipantStreams, a \in AnswerInputs :
             (ParticipantMessage(s, a) /\ status # "active")
             => /\ UNCHANGED <<status, idx, parts, score, responses, elapsed,
                              sentFor, room, task>>
                /\ sent' = NoMsg
       /\ status = "finished" => UNCHANGED <<score, responses>>]_vars

\* C11 witness: a submission was dropped in a finished session that holds
\* scored answers.
C11_Witness ==
    /\ step = Step("submit_answer", "ignored")
    /\ status = "finished"
    /\ \E r \in responses : r.points_awarded > 0

C14_ForeignAnswerRejected ==
    [][\A s \in ParticipantStreams, a \in AnswerIds :
          ( /\ ParticipantMessage(s, a)
            /\ status = "active"
            /\ AnswerQuestion(a) # idx )
          => /\ UNCHANGED <<responses, score>>
             /\ sent'.type = "error" /\ sent'.text = InvalidAnswer
             /\ sent'.to \in ParticipantStreams
             /\ task[sent'.to].pid = task[s].pid
             /\ task'[s].after = "none"
             /\ \A k \in 1 .. Len(task'[s].items) :
                    /\ task'[s].items[k].type = "error"
                    /\ task'[s].items[k].scope = "one"
                    /\ task'[s].items[k].pid = task[s].pid]_vars

\* C14 witness: an answer of the second question was refused while the
\* first question is current.
C14_Witness ==
    /\ step = Step("submit_answer", InvalidAnswer)
    /\ sent.type = "error" /\ sent.text = InvalidAnswer
    /\ status = "active" /\ idx = 0

\* C15: a Response row appears only in a step of submit_answer taken while
\* the status is active, and it is a row for the question at
\* current_question_idx; every row that exists stays exactly as it is.
C15_RowLifecycle ==
    [][/\ \A r \in responses' \ responses :
             /\ status = "active" /\ status' = "active"
             /\ r.question_id = idx /\ idx' = idx
             /\ step'.op = "submit_answer"
       /\ responses \subseteq responses']_vars

\* C15 witness: a row of the first question is still there while the second
\* question is being revealed and has a row of its own.
C15_Witness ==
    /\ status = "revealing" /\ idx = 1
    /\ \E r1, r2 \in responses : r1.question_id = 0 /\ r2.question_id = 1

C17_ResultOnlyToOwner ==
    /\ sent.type = "answer_submitted"
          => /\ sent.to \in ParticipantStreams
             /\ task[sent.to].pid = sent.pid
             /\ \E r \in responses : r.participant_id = sent.pid
                                      /\ r.question_id = sent.q
    /\ sent.type = "answer_received"
          => /\ sent.to \in AdminStreams
             /\ sent.text = ""

\* C17 witness: p1 is handed its answer_submitted while p2, connected to the
\* same room, has a row of its own for the same question.
C17_Witness ==
    /\ sent.type = "answer_submitted" /\ sent.pid = "p1"
    /\ \E t \in ParticipantStreams : task[t].pid = "p2"
    /\ \E r \in responses : r.participant_id = "p2" /\ r.question_id = sent.q

\* C20: an answer_submitted or answer_received is handed to a stream only
\* when the Response row of its participant and question is committed, and
\* a submission that inserts no row sends neither of them, neither at once
\* nor in the rest of its handler.
C20_NoticesFollowCommit ==
    [][/\ sent'.type \in ResultNotices
             => \E r \in responses' : /\ r.participant_id = sent'.pid
                                      /\ r.question_id = sent'.q
       /\ \A s \in ParticipantStreams, a \in AnswerInputs :
             (ParticipantMessage(s, a) /\ responses' = responses)
             => /\ sent'.type \notin ResultNotices
                /\ task'[s].after # "count"
                /\ \A k \in 1 .. Len(task'[s].items) :
                       task'[s].items[k].type \notin ResultNotices]_vars

\* C20 witness: the presenter is handed the answer_received of a committed
\* row.
C20_Witness ==
    /\ sent.type = "answer_received"
    /\ sent.to \in AdminStreams
    /\ \E r \in responses : r.participant_id = sent.pid /\ r.question_id = sent.q

\* ------------------------------------------------------------------------
\* Delivery order
\* ------------------------------------------------------------------------
\* the step hands a frame written by a presenter stream's command handler
ByPresenter ==
    \E t \in AdminStreams :
        Resume(t) \/ \E cmd \in AdminCmds : AdminCommand(t, cmd)

\* C18: with reveal_answer for question i and then next_question issued by
\* the presenter, no stream is handed answer_revealed for index i after it
\* was handed a new_question for a later index.
C18_RevealBeforeNext ==
    [][sent'.type = "answer_revealed" => got.q[sent'.to] <= sent'.q]_vars

\* C19: broadcasts are handed to each stream in the order they were
\* submitted to the hub, also when they come from concurrent handlers: a
\* new_question, which is always submitted before any game_ended, is never
\* handed to a stream that was already handed game_ended.
C19_HubOrderPreserved ==
    [][(sent'.type = "new_question" /\ ByPresenter)
          => sent'.to \notin got.ended]_vars

\* ------------------------------------------------------------------------
\* Join controller
\* ------------------------------------------------------------------------

\* C22: a join with the nickname of a persisted participant while the
\* session is active or revealing is answered 200 with that participant's
\* id and token, which are the id and the token the join that created the
\* row was answered with (201); it adds no participant, changes no score,
\* sends no participant_joined and leaves every other part of the state as
\* it is, so that repeating it gives the same answer.
C22_RejoinIdempotent ==
    [][\A r \in RestTasks, n \in Nicknames :
         join_session(r, n) =>
           /\ (step'.out = "201" =>
                 /\ parts' \ parts = {[id |-> step'.id, nickname |-> n,
                                        token |-> step'.token]}
                 /\ \A p \in parts : p.id # step'.id /\ p.token # step'.token)
           /\ ((status \in {"active", "revealing"}
                /\ \E p \in parts : p.nickname = n) =>
                 /\ \E e \in parts :
                      /\ e.nickname = n
                      /\ step' = [op |-> "join", out |-> "200", id |-> e.id,
                                  token |-> e.token]
                 /\ sent' = NoMsg
                 /\ UNCHANGED <<status, idx, parts, score, responses, room,
                                task, elapsed>>)]_vars

\* a rejoin of a participant who has scored, answered while the session is
\* revealing
C22_Witness ==
    /\ step.op = "join"
    /\ step.out = "200"
    /\ status = "revealing"
    /\ \E p \in parts : p.id = step.id /\ score[p.id] > 0

\* C23: no two participants of the session share a nickname (or an id), and
\* a join in lobby with a nickname that a participant already has is
\* answered 409 and adds nothing, also while the join that created that
\* participant is still suspended in its notice to the presenter.
C23_NicknameUnique ==
    [][/\ \A p, q \in parts' :
            (p.nickname = q.nickname \/ p.id = q.id) => p = q
       /\ \A r \in RestTasks, n \in Nicknames :
            (join_session(r, n) /\ status = "lobby"
             /\ \E p \in parts : p.nickname = n) =>
              (step'.out = "409" /\ parts' = parts /\ sent' = NoMsg)]_vars

\* the second of two concurrent joins with one nickname is answered 409
\* while the first is suspended in its participant_joined notice
C23_Witness ==
    /\ step.op = "join"
    /\ step.out = "409"
    /\ \E r \in RestTasks :
         /\ task[r].st = "busy"
         /\ task[r].items # <<>>
         /\ Head(task[r].items).type = "participant_joined"
    /\ Cardinality(parts) = 1

\* C24: a step changes the participants only by adding one row, and only
\* while the status is lobby before and after it; a join in any other
\* status adds nothing.
C24_AdmittedOnlyInLobby ==
    [][/\ parts' # parts =>
            /\ status = "lobby" /\ status' = "lobby"
            /\ parts \subseteq parts'
            /\ Cardinality(parts') = Cardinality(parts) + 1
       /\ \A r \in RestTasks, n \in Nicknames :
            (join_session(r, n) /\ status # "lobby") => parts' = parts]_vars

\* a join with a new nickname is rejected while the fan-out of start_game
\* is still in flight
C24_Witness ==
    /\ step.op = "join"
    /\ step.out = "400 Session already started"
    /\ status = "active"
    /\ task["a1"].st = "busy"
    /\ task["a1"].items # <<>>
    /\ Head(task["a1"].items).type \in {"game_started", "new_question"}
    /\ parts # {}

\* ------------------------------------------------------------------------
\* Repeated reveal
\* ------------------------------------------------------------------------

\* C30: a reveal_answer accepted while the status is revealing leaves the
\* status, the index, the participants and the responses as they are and
\* hands out an answer_revealed for the current index whose choices carry
\* is_correct and whose stats and player_results are those of the responses
\* to the current question; and no step that keeps the status revealing
\* changes the index, the participants or the responses, so that they are
\* the ones the first reveal reported.
C30_RevealRepeats ==
    [][/\ (status = "revealing" /\ status' = "revealing") =>
            UNCHANGED <<idx, parts, responses>>
       /\ \A s \in AdminStreams :
            (AdminCommand(s, "reveal_answer") /\ status = "revealing") =>
              /\ status' = "revealing"
              /\ sent'.type = "answer_revealed"
              /\ sent'.q = idx
              /\ sent'.text = "is_correct"
              /\ LET rs == {r \in responses : r.question_id = idx}
                 IN /\ sent'.body.total_responses = Cardinality(rs)
                    /\ sent'.body.correct_count =
                         Cardinality({r \in rs : r.is_correct})
                    /\ \A p \in parts :
                         \E e \in sent'.body.player_results :
                           /\ e.participant_id = p.id
                           /\ \/ \E r \in rs :
                                    /\ r.participant_id = p.id
                                    /\ e.is_correct = r.is_correct
                                    /\ e.answer_id = r.answer_id
                                    /\ e.points_awarded = r.points_awarded
                              \/ /\ \A r \in rs : r.participant_id # p.id
                                 /\ ~e.is_correct
                                 /\ e.answer_id = None
                                 /\ e.points_awarded = 0
                    /\ Cardinality(sent'.body.player_results) =
                         Cardinality(parts)]_vars

\* a repeated reveal of the second question, which has a response, after a
\* response to the first question
C30_Witness ==
    /\ step = [op |-> "reveal_answer", out |-> "again"]
    /\ sent.type = "answer_revealed"
    /\ sent.body.total_responses = 1
    /\ Cardinality(responses) = 2

\* ------------------------------------------------------------------------
\* Stream authentication and ingress
\* ------------------------------------------------------------------------
Attached(s, rm) == \E j \in 1 .. Len(rm) : rm[j].ws = s
Presenters(rm) == {j \in 1 .. Len(rm) : rm[j].role = "admin"}

C27_ClientTimeIgnored ==
    [][/\ \A s \in ParticipantStreams, f \in MsgFrames :
            (f.type = "submit_answer" /\ ws_receive(s, f)) =>
              \A g \in MsgFrames :
                (/\ g.type = "submit_answer"
                 /\ g.len = f.len
                 /\ g.answer_id = f.answer_id) => ws_receive(s, g)
       /\ \A r \in responses' \ responses :
            LET tl == TimeLimit(r.question_id)
                e == IF elapsed = Absent THEN 0 ELSE elapsed
                rt == IF e < tl THEN e ELSE tl
            IN /\ r.response_time = rt
               /\ r.points_awarded =
                    IF r.is_correct THEN 500 + (500 * (tl - rt)) \div tl
                    ELSE 0]_vars

\* a correct answer stored with response_time 0 and full points, while the
\* frames tried report the whole time limit
C27_Witness ==
    /\ step = [op |-> "submit_answer", out |-> "ok"]
    /\ \E r \in responses :
         /\ r.is_correct
         /\ r.response_time = 0
         /\ r.points_awarded = 1000
    /\ MaxTimeLimit \in ClientTimes

\* C28: a participant stream that has closed is detached, and the step
\* that detaches an attached participant stream hands participant_disconnected
\* for its participant to a presenter, if one is attached.
C28_CloseNotifiesPresenter ==
    [][\A s \in ParticipantStreams :
         /\ task'[s].st = "closed" => ~Attached(s, room')
         /\ (Attached(s, room) /\ ~Attached(s, room')) =>
              \/ Presenters(room') = {}
              \/ /\ sent'.type = "participant_disconnected"
                 /\ sent'.pid = task[s].pid
                 /\ \E j \in Presenters(room') : room'[j].ws = sent'.to]_vars

\* ------------------------------------------------------------------------
\* Leaderboard
\* ------------------------------------------------------------------------

\* C29: a leaderboard lists every participant exactly once, its ranks are
\* 1 .. n in list order, the scores do not increase along the list, and of
\* two entries with equal scores the one with the smaller participant id
\* comes first ("p1" before "p2").
C29_LeaderboardOrder ==
    board # NoBoard =>
      /\ Len(board) = Cardinality(parts)
      /\ \A p \in parts :
           \E i \in 1 .. Len(board) :
             /\ board[i].participant_id = p.id
             /\ board[i].score = score[p.id]
             /\ \A j \in 1 .. Len(board) :
                  board[j].participant_id = p.id => j = i
      /\ \A i \in 1 .. Len(board) : board[i].rank = i
      /\ \A i, j \in 1 .. Len(board) :
           i < j =>
             \/ board[i].score > board[j].score
             \/ /\ board[i].score = board[j].score
                /\ board[i].participant_id = "p1"
                /\ board[j].participant_id = "p2"

\* ------------------------------------------------------------------------
\* Late-joiner sync
\* ------------------------------------------------------------------------

\* the frames the connect handler writes to its stream for a session row
SyncFrames(row) ==
    <<[type |-> "auth_ok", q |-> -1, text |-> ""]>>
    \o (IF row.status \in {"active", "revealing"}
        THEN <<[type |-> "game_started", q |-> -1, text |-> ""],
               [type |-> "new_question", q |-> row.idx,
                text |-> IF row.status = "revealing" THEN "is_correct"
                         ELSE ""]>>
        ELSE <<>>)

IsPrefix(a, b) == Len(a) <= Len(b) /\ a = SubSeq(b, 1, Len(a))

C31_RevealPayload ==
    sent.type = "answer_revealed" =>
      LET rs == {r \in responses : r.question_id = sent.q}
          res == sent.body.player_results
      IN /\ sent.body.total_responses = Cardinality(rs)
         /\ sent.body.correct_count = Cardinality({r \in rs : r.is_correct})
         /\ \A e \in res : \E p \in parts : p.id = e.participant_id
         /\ \A p \in parts :
              /\ Cardinality({e \in res : e.participant_id = p.id}) = 1
              /\ \A e \in res :
                   e.participant_id = p.id =>
                     IF \E r \in rs : r.participant_id = p.id
                     THEN \E r \in rs :
                            /\ r.participant_id = p.id
                            /\ e.is_correct = r.is_correct
                            /\ e.answer_id = r.answer_id
                            /\ e.points_awarded = r.points_awarded
                     ELSE /\ e.is_correct = FALSE
                          /\ e.answer_id = "none"
                          /\ e.points_awarded = 0

\* the first reveal of a question that one of two participants answered
\* correctly and the other did not answer
C31_Witness ==
    /\ sent.type = "answer_revealed"
    /\ step = [op |-> "reveal_answer", out |-> "ok"]
    /\ sent.body.total_responses = 1
    /\ sent.body.correct_count = 1
    /\ Cardinality(parts) = 2
    /\ \E e \in sent.body.player_results :
         e.answer_id = "none" /\ e.points_awarded = 0

\* ------------------------------------------------------------------------
\* REST finish
\* ------------------------------------------------------------------------

\* C32: a call of the REST finish operation on a session that is not
\* finished sets the status to finished, changes nothing else in the
\* database and issues one broadcast of one game_ended that carries the
\* leaderboard (every participant once, with nickname, score and its
\* position as rank); on a finished session it is rejected: no row, no
\* room, no coroutine and no timestamp changes and nothing is sent.  This
\* holds at whatever point of a presenter command's fan-out the call runs.
C32_RestFinish ==
    [][step'.op = "finish" =>
         IF status = "finished"
         THEN /\ step'.out = "ignored"
              /\ sent' = NoMsg
              /\ UNCHANGED <<status, idx, parts, score, responses, room, task,
                             elapsed, sentFor>>
         ELSE /\ step'.out = "ok"
              /\ status' = "finished"
              /\ UNCHANGED <<idx, parts, score, responses, room, elapsed,
                             sentFor>>
              /\ \E r \in RestTasks :
                   /\ task[r].st = "idle"
                   /\ \A t \in Tasks \ {r} : task'[t] = task[t]
                   /\ IF room = <<>>
                      THEN task'[r].st = "idle" /\ sent' = NoMsg
                      ELSE /\ task'[r].st = "busy"
                           /\ Len(task'[r].items) = 1
                           /\ task'[r].after = "none"
                           /\ sent'.type = "game_ended"
                           /\ sent'.to = room[1].ws
                           /\ LET m == task'[r].items[1]
                                  lb == m.body.leaderboard
                              IN /\ m.type = "game_ended"
                                 /\ m.scope = "all"
                                 /\ sent'.body = m.body
                                 /\ Len(lb) = Cardinality(parts)
                                 /\ \A p \in parts :
                                      \E i \in DOMAIN lb :
                                        /\ lb[i].participant_id = p.id
                                        /\ lb[i].nickname = p.nickname
                                        /\ lb[i].score = score[p.id]
                                        /\ lb[i].rank = i]_vars

\* a finish call rejected while the presenter's end_game, which made the
\* session finished, is suspended in its fan-out, with two participants
C32_Witness ==
    /\ step = [op |-> "finish", out |-> "ignored"]
    /\ status = "finished"
    /\ Cardinality(parts) = 2
    /\ \E a \in AdminStreams :
         /\ task[a].st = "busy"
         /\ task[a].items # <<>>
         /\ task[a].items[1].type = "game_ended"

\* ------------------------------------------------------------------------
\* Session creation
\* ------------------------------------------------------------------------

Delivered(f, s) ==
    Cardinality({k \in DOMAIN fan[f].okd : fan[f].okd[k] = s})

\* C34: when a fan-out call (broadcast, send_to_admin,
\* send_to_participants, send_to_one) has ended on a room that no stream
\* joined or left by itself, every connection that passed the filter of
\* the call, was not removed from the room during the call and had no send
\* raise in the call was sent the message exactly once.
C34_FailingSendSkipsNobody ==
    \A f \in Fans :
      fan[f].st = "done" =>
        \A s \in (fan[f].targets \cap fan[f].stay) \ fan[f].failed :
          Delivered(f, s) = 1

\* ------------------------------------------------------------------------
\* Broadcast during attach and detach
\* ------------------------------------------------------------------------

\* C35: when a broadcast has ended, with every send returning, every
\* connection that was in the room when the broadcast was called and was
\* not detached before it ended was sent the message exactly once,
\* whichever streams attached or detached while the broadcast was
\* suspended in a send.
C35_BroadcastDuringDetach ==
    \A f \in Fans :
      (fan[f].st = "done" /\ fan[f].scope = "all" /\ fan[f].failed = {}) =>
        \A s \in fan[f].stay : Delivered(f, s) = 1

\* ------------------------------------------------------------------------
\* Detach
\* ------------------------------------------------------------------------

\* C36: a step in which a stream closes removes exactly the connection of
\* that stream from the room, keeping the others and their order; and a
\* step that empties the room also deletes the question-sent timestamp, so
\* that no elapsed time is recorded once the room is empty.
C36_DetachDeletesTimestamp ==
    [][Len(room') < Len(room) =>
         /\ \E s \in Streams :
              /\ \E k \in DOMAIN room : room[k].ws = s
              /\ room' = SeqRemove(room, s)
         /\ (room' = <<>> => elapsed' = Absent)]_vars

\* ------------------------------------------------------------------------
\* One connection per identity
\* ------------------------------------------------------------------------

\* C37: in every reachable state the room holds at most one connection
\* with role admin, whatever presenter streams authenticated and closed.
C37_OneAdmin ==
    Cardinality({k \in DOMAIN room : room[k].role = "admin"}) <= 1

\* C38: in every reachable state the room holds at most one connection per
\* participant identity, so that a send_to_one has at most one connection
\* to deliver to and the participant count counts each participant once.
C38_OneStreamPerParticipant ==
    \A i, j \in DOMAIN room :
      (/\ room[i].role = "participant"
       /\ room[j].role = "participant"
       /\ room[i].participant_id = room[j].participant_id) => i = j

\* ------------------------------------------------------------------------
\* Late joiner and concurrent broadcasts
\* ------------------------------------------------------------------------

\* C39: every new_question handed to a participant stream carries a
\* question index greater than that of every new_question handed to the
\* same stream before, whether the frame comes from a broadcast of
\* start_game or next_question or from the late-joiner sync of the stream.
C39_QuestionIndexIncreases ==
    [][\A s \in ParticipantStreams :
         (sent' # NoMsg /\ sent'.to = s /\ sent'.type = "new_question") =>
           sent'.q > got.q[s]]_vars

\* C40: no game_started, new_question, answer_revealed or game_ended is
\* handed to a stream that has authenticated and was attached to the room
\* before auth_ok has been written to that stream.
C40_AuthOkFirst ==
    [][\A s \in ParticipantStreams :
         (/\ sent' # NoMsg
          /\ sent'.to = s
          /\ sent'.type \in {"game_started", "new_question",
                              "answer_revealed", "game_ended"}
          /\ got.auth[s] # NoRow) =>
           got.own[s] # <<>>]_vars

====
